---- MODULE Spec2Model ----
(***************************************************************************)
(* Stock updater: a delimited inventory feed is reconciled against the     *)
(* remote catalog's SKU index and the result is applied as batched         *)
(* inventorySetQuantities mutations.  The repository holds two pipeline    *)
(* variants, secondStockUpdater.py ("ftp") and seleniumToShopifyUpdater.py *)
(* ("selenium"); `variant` selects which program is running.               *)
(*                                                                         *)
(* Text is a sequence of one-character strings.  None is NoneStr for text  *)
(* and [ok |-> FALSE] for a quantity.  A page cursor is the number of the  *)
(* page whose endCursor it is, 0 for None.                                 *)
(***************************************************************************)
EXTENDS FiniteSets, Integers, Sequences, TLC

\* ------------------------------------------------------------------ bounds
MaxHdrLen == 2
MaxUserErrors == 1
MaxBatch == 2
MaxUpdates == 2
MaxPasses == 2

\* ------------------------------------------------------- program constants
DefaultBatchSize == 250
SampleLen == 2048
QtyUpperBound == 1000000
ShortPause == 500
LongPause == 2000
SeleniumPause == 500

NL == "\n"
TAB == "\t"
SP == " "
NoneStr == <<"<None>">>
NoQty == [ok |-> FALSE, v |-> 0]
Digits == {"0", "1", "2", "3", "4", "5", "6", "7", "8", "9"}
Whitespace == {SP, TAB, NL}

Min(a, b) == IF a < b THEN a ELSE b

\* ------------------------------------------------------------ text helpers
DigitVal(c) ==
  CASE c = "0" -> 0 [] c = "1" -> 1 [] c = "2" -> 2 [] c = "3" -> 3
    [] c = "4" -> 4 [] c = "5" -> 5 [] c = "6" -> 6 [] c = "7" -> 7
    [] c = "8" -> 8 [] c = "9" -> 9

\* str.count(c)
Count(s, c) == Cardinality({k \in 1..Len(s) : s[k] = c})

\* str.strip()
RECURSIVE LStrip(_)
LStrip(s) ==
  IF s # <<>> /\ Head(s) \in Whitespace THEN LStrip(Tail(s)) ELSE s

RECURSIVE RStrip(_)
RStrip(s) ==
  IF s # <<>> /\ s[Len(s)] \in Whitespace
  THEN RStrip(SubSeq(s, 1, Len(s) - 1)) ELSE s

Strip(s) == RStrip(LStrip(s))

\* str.split(d): always at least one part
RECURSIVE SplitOn(_, _)
SplitOn(s, d) ==
  IF \A k \in 1..Len(s) : s[k] # d
  THEN <<s>>
  ELSE LET k == CHOOSE j \in 1..Len(s) :
                  s[j] = d /\ \A h \in 1..(j - 1) : s[h] # d
       IN  <<SubSeq(s, 1, k - 1)>> \o SplitOn(SubSeq(s, k + 1, Len(s)), d)

AllDigits(s) == s # <<>> /\ \A k \in 1..Len(s) : s[k] \in Digits

RECURSIVE DigitsVal(_)
DigitsVal(s) ==
  IF s = <<>> THEN 0
  ELSE 10 * DigitsVal(SubSeq(s, 1, Len(s) - 1)) + DigitVal(s[Len(s)])

\* int(text): surrounding whitespace stripped, optional sign, decimal digits
IsIntText(s) ==
  LET t == Strip(s)
  IN  \/ AllDigits(t)
      \/ t # <<>> /\ Head(t) = "-" /\ AllDigits(Tail(t))

IntTextVal(s) ==
  LET t == Strip(s)
  IN  IF Head(t) = "-" THEN 0 - DigitsVal(Tail(t)) ELSE DigitsVal(t)

PyInt(s) == IF IsIntText(s) THEN [ok |-> TRUE, v |-> IntTextVal(s)] ELSE NoQty

\* a decimal literal digits.digits with optional sign
IsFloatText(s) ==
  LET p == SplitOn(Strip(s), ".")
  IN  Len(p) = 2 /\ IsIntText(p[1]) /\ AllDigits(p[2])

\* int(float): truncation toward zero
FloatTextTrunc(s) == IntTextVal(SplitOn(Strip(s), ".")[1])

\* ------------------------------------------------------------------- state
VARIABLES
  variant,        \* "ftp" | "selenium"
  pc,             \* position of main()
  failStage,      \* stage in which the run raised, "none" while it has not
  feed,           \* raw bytes of the materialized feed file
  catalog,        \* the remote catalog: a sequence of pages
  batch_size,     \* update_inventory's batch_size parameter
  cursor,         \* fetch_inventory_items: cursor
  pageReqs,       \* page requests issued so far: cursor sent, response
  inventory_map,  \* SKU -> [inventoryItemId, title]
  counts,         \* delimiter occurrences in the sample: commas, semis, tabs
  sep,            \* read_csv: sep
  df,             \* read_csv: rows of the parsed frame
  rowIdx,         \* read_csv: next row of df.iterrows()
  updates,        \* the update records
  skipped,        \* read_csv: skipped
  i,              \* update_inventory: loop index
  requests,       \* mutation requests issued so far, with their responses
  total_updated,  \* update_inventory: total_updated
  total_errors,   \* update_inventory: total_errors
  pause,          \* the last pacing delay after a batch, ms; 0 before any
  lastHeader,     \* rate-limit header of the last mutation response
  remote,         \* the remote's available quantity of each inventory item
  passes,         \* remote at the start, then at the end of each
                  \* update_inventory pass, with the pass's outcome
  trace,          \* requests, responses and pacing delays, in order
  limitHeaders    \* the rate-limit header values the remote answers with

vars == <<variant, pc, failStage, feed, catalog, batch_size, cursor, pageReqs,
          inventory_map, counts, sep, df, rowIdx, updates, skipped, i,
          requests, total_updated, total_errors, pause, lastHeader,
          remote, passes, trace, limitHeaders>>

fetchVars == <<cursor, pageReqs, inventory_map>>
csvVars == <<counts, sep, df, rowIdx, updates, skipped>>
mutVars == <<i, requests, total_updated, total_errors, pause, lastHeader>>
envVars == <<variant, feed, catalog, batch_size, limitHeaders>>
remoteVars == <<remote, passes>>

\* --------------------------------------------------------- the environment
\* One line of the feed file: the cells joined by the delimiter d.
RECURSIVE JoinCells(_, _)
JoinCells(cells, d) ==
  IF cells = <<>> THEN <<>>
  ELSE IF Len(cells) = 1 THEN cells[1]
  ELSE cells[1] \o <<d>> \o JoinCells(Tail(cells), d)

\* A feed file: one newline-terminated line per row.
RECURSIVE FeedOf(_, _)
FeedOf(rows, d) ==
  IF rows = <<>> THEN <<>>
  ELSE JoinCells(Head(rows), d) \o <<NL>> \o FeedOf(Tail(rows), d)

A1 == <<"A", "1">>
a1 == <<"a", "1">>
B2 == <<"B", "2">>
C3 == <<"C", "3">>
X == <<"x">>

\* Feed files the acquisition step can materialize.
Feeds ==
  { FeedOf(<< <<A1, <<"1", "0">>>>, <<B2, <<"-", "5">>>>,
              <<C3, <<"7", "0">>>> >>, ","),
    FeedOf(<< <<A1, X, <<"1", "0">>>>, <<B2, X, <<"-", "5">>>>,
              <<C3, X, <<"7", "0">>>> >>, ","),
    FeedOf(<< <<<<SP, "A", "1", SP>>, X, <<"5">>>>, <<a1, X, <<"7">>>>,
              <<C3, X, <<"1", "0", "0", "0", "0", "0", "1">>>> >>, ";"),
    FeedOf(<< <<A1, <<"3">>>>, <<C3, X>> >>, TAB),
    <<>>,
    <<NL, NL>>,
    FeedOf(<< <<A1, <<"1">>>>, <<C3, <<"2">>, <<"3">>>> >>, ","),
    FeedOf(<< <<A1, X, <<"4">>>>, <<C3>> >>, ","),
    FeedOf(<< <<A1, <<"1", ".", "5">>>>, <<C3, <<"-", "0", ".", "5">>>> >>,
           ","),
    FeedOf(<< <<A1, X, <<"1", ".", "5">>>>, <<C3, X, X>> >>, ","),
    FeedOf(<< <<A1, <<"-", "5">>>>,
              <<C3, <<"1", "0", "0", "0", "0", "0", "1">>>> >>, ","),
    FeedOf(<< <<A1, X, <<"1">>>>,
              <<C3, X, <<"1", "0", "0", "0", "0", "0", "0">>>>,
              <<B2, X, <<"0">>>> >>, ";"),
    FeedOf(<< <<A1, <<"2">>, <<";">>>> >>, TAB) }

\* A variant edge of a catalog page, with the title of its product.
Variant(sku, id, title) == [sku |-> sku, id |-> id, title |-> title]

\* Remote catalogs: each a sequence of pages, each page the variants of its
\* products in product-then-variant order.
Catalogs ==
  { << <<Variant(A1, "item1", "T1")>>, <<Variant(C3, "item3", "T3")>> >>,
    << <<Variant(<<SP, "A", "1">>, "item1", "T1"),
         Variant(A1, "item9", "T9"),
         Variant(NoneStr, "item5", "T5"),
         Variant(<<>>, "item6", "T6"),
         Variant(B2, "item2", "T2"),
         Variant(<<SP>>, "item7", "T7")>> >>,
    << <<>> >>,
    << <<Variant(A1, "item1", "T1")>>, <<>>,
       <<Variant(C3, "item3", "T3"), Variant(a1, "item4", "T4"),
         Variant(B2, "item2", "T2")>> >> }

BatchSizes == (1..MaxBatch) \cup {DefaultBatchSize}

EmptyMap == [k \in {} |-> [inventoryItemId |-> "", title |-> ""]]

HdrAlphabet == {"4", "5", "/"}

\* X-Shopify-Shop-Api-Call-Limit values a response can carry; NoneStr when
\* the header is missing.
Headers ==
  {NoneStr}
  \cup UNION {[1..n -> HdrAlphabet] : n \in 0..MaxHdrLen}
  \cup { <<"9", "5", "/", "1", "0", "0">>, <<"1", "0", "/", "1", "0", "0">>,
         <<"8", "0", "/", "1", "0", "0">>, <<"8", "1", "/", "1", "0", "0">>,
         <<"0", "/", "0">>, <<"5", "/", "0">>, <<"x">>, <<"4", "/", "x">>,
         <<"-", "4", "/", "5">>, <<"4", "/", "-", "5">>,
         <<SP, "5", "/", "5", SP>> }

\* The inventory items of a catalog.
HandlesOf(cat) ==
  UNION {{cat[p][j].id : j \in 1..Len(cat[p])} : p \in 1..Len(cat)}

\* The remote's stock before the run: one unit of every item.
StockOf(cat) == [h \in HandlesOf(cat) |-> 1]

\* The first entry of passes: the remote before any pass.
StartOf(r) == [outcome |-> "start", clean |-> TRUE, remote |-> r]

Init ==
  /\ variant \in {"ftp", "selenium"}
  /\ feed \in Feeds
  /\ catalog \in Catalogs
  /\ batch_size \in BatchSizes
  /\ pc = "acquire"
  /\ failStage = "none"
  /\ cursor = 0
  /\ pageReqs = <<>>
  /\ inventory_map = EmptyMap
  /\ counts = <<0, 0, 0>>
  /\ sep = ""
  /\ df = <<>>
  /\ rowIdx = 1
  /\ updates = <<>>
  /\ skipped = 0
  /\ i = 0
  /\ requests = <<>>
  /\ total_updated = 0
  /\ total_errors = 0
  /\ pause = 0
  /\ lastHeader = NoneStr
  /\ remote = StockOf(catalog)
  /\ passes = <<StartOf(remote)>>
  /\ trace = <<>>
  /\ limitHeaders = Headers

\* Raise with the exception caught and logged: main() carries on with the
\* stage that follows.
RaiseSwallowed(stage) ==
  /\ failStage' = stage
  /\ pc' = CASE stage = "acquire" -> "location"
            [] stage = "location" -> "fetch"
            [] stage = "fetch" -> "read_csv"
            [] OTHER -> "done"

\* An uncaught exception leaves main(): the process ends with a traceback.
Raise(stage) == pc' = "fatal" /\ failStage' = stage

\* ------------------------------------------------------------- acquisition
\* fetch_csv_from_ftp / download_latest_file: the file is materialized, or
\* the transfer (login, name check, download timeout) raises.
Acquire ==
  /\ pc = "acquire"
  /\ \E ok \in BOOLEAN :
       IF ok THEN pc' = "location" /\ failStage' = failStage
       ELSE Raise("acquire")
  /\ UNCHANGED <<envVars, fetchVars, csvVars, mutVars, remoteVars, trace>>

\* get_location_id
LocationResponses == {"http_error", "no_data", "no_locations", "ok"}

GetLocation ==
  /\ pc = "location"
  /\ \E resp \in LocationResponses :
       IF resp = "ok" THEN pc' = "fetch" /\ failStage' = failStage
       ELSE Raise("location")
  /\ UNCHANGED <<envVars, fetchVars, csvVars, mutVars, remoteVars, trace>>

\* ----------------------------------------------------- catalog index build
\* inventory_map[sku.strip()] = {...} for every variant with a truthy sku
RECURSIVE AddVariants(_, _)
AddVariants(map, vs) ==
  IF vs = <<>> THEN map
  ELSE LET v == Head(vs)
           key == Strip(v.sku)
           entry == [inventoryItemId |-> v.id, title |-> v.title]
           next == IF v.sku # NoneStr /\ v.sku # <<>>
                   THEN [k \in DOMAIN map \cup {key} |->
                           IF k = key THEN entry ELSE map[k]]
                   ELSE map
       IN  AddVariants(next, Tail(vs))

\* What the remote can answer to a page query.
PageResponses ==
  {[status |-> "http_error", errors |-> FALSE, data |-> "absent"]}
  \cup {[status |-> "ok", errors |-> FALSE, data |-> "present"]}
  \cup {[status |-> "ok", errors |-> TRUE, data |-> d] :
          d \in {"absent", "null", "present"}}

\* The remote's pageInfo for the page that answers cursor c: hasNextPage
\* while pages remain, endCursor the cursor of the page served.
HasNextPage(c) == c + 1 < Len(catalog)

EndCursor(c) == c + 1

\* PageEvents without the time.sleep between page requests.
PageEventsNoSleep(more) == <<"page_request", "page_response">>

\* What one loop iteration adds to the trace: the request, its response,
\* and the time.sleep that precedes the next request when the loop goes on.
PageEvents(more) ==
  <<"page_request", "page_response">>
  \o (IF more THEN <<"page_sleep">> ELSE <<>>)

\* StorePage with the cursor never advanced.
StorePageSameCursor ==
  /\ inventory_map' = AddVariants(inventory_map, catalog[cursor + 1])
  /\ IF HasNextPage(cursor)
     THEN cursor' = cursor /\ pc' = pc
     ELSE cursor' = cursor /\ pc' = "read_csv"
  /\ trace' = trace \o PageEvents(HasNextPage(cursor))
  /\ failStage' = failStage

\* The page loop's tail: store the page's variants, then follow the cursor.
StorePage ==
  /\ inventory_map' = AddVariants(inventory_map, catalog[cursor + 1])
  /\ IF HasNextPage(cursor)
     THEN cursor' = EndCursor(cursor) /\ pc' = pc
     ELSE cursor' = cursor /\ pc' = "read_csv"
  /\ trace' = trace \o PageEvents(HasNextPage(cursor))
  /\ failStage' = failStage

\* The iteration ends without storing the page: a raise or the break.
NoStore ==
  trace' = trace \o PageEvents(FALSE) /\ UNCHANGED <<cursor, inventory_map>>

\* One iteration of the while loop of fetch_inventory_items.
FetchPage ==
  /\ pc = "fetch"
  /\ \E resp \in PageResponses :
     /\ pageReqs' = Append(pageReqs, [cursor |-> cursor, resp |-> resp])
     /\ IF resp.status = "http_error"
        THEN Raise("fetch") /\ NoStore
        ELSE IF variant = "ftp"
        THEN IF resp.errors
             THEN pc' = "read_csv" /\ failStage' = failStage /\ NoStore
             ELSE StorePage
        ELSE IF resp.data # "present"
             THEN Raise("fetch") /\ NoStore
             ELSE StorePage
  /\ UNCHANGED <<envVars, csvVars, mutVars, remoteVars>>

\* ------------------------------------------------------------------ read_csv
\* The if/elif/else that picks sep from the three counts.
DetectSep(commas, semis, tabs) ==
  IF semis > commas THEN ";"
  ELSE IF tabs > commas THEN TAB
  ELSE ","

\* raw[:2048]
Sample(raw) == SubSeq(raw, 1, Min(SampleLen, Len(raw)))

SampleCounts(raw) ==
  <<Count(Sample(raw), ","), Count(Sample(raw), ";"), Count(Sample(raw), TAB)>>

\* pd.read_csv's tokenizer: the lines of the buffer, blank lines skipped,
\* each split on the delimiter.
Lines(raw) == SelectSeq(SplitOn(raw, NL), LAMBDA l : l # <<>>)

Tokenize(raw, d) ==
  [k \in 1..Len(Lines(raw)) |-> SplitOn(Lines(raw)[k], d)]

\* A short row is filled with missing cells; <<>> is a missing cell (NaN).
PadRow(row, n) == [k \in 1..n |-> IF k <= Len(row) THEN row[k] ELSE <<>>]

\* pd.read_csv(..., header=None): "empty" for EmptyDataError, "ragged" for
\* the ParserError of a row with more fields than the first, else the frame.
ParseOutcome(raw, d) ==
  LET rows == Tokenize(raw, d)
  IN  IF rows = <<>> THEN "empty"
      ELSE IF \E k \in 1..Len(rows) : Len(rows[k]) > Len(rows[1])
      THEN "ragged"
      ELSE "frame"

Frame(raw, d) ==
  LET rows == Tokenize(raw, d)
  IN  [k \in 1..Len(rows) |-> PadRow(rows[k], Len(rows[1]))]

\* Column type inference: a column is numeric when every cell is missing or
\* a number; any other cell makes it an object column of strings.
ColNumeric(frame, col) ==
  \A k \in 1..Len(frame) :
    \/ frame[k][col] = <<>>
    \/ IsIntText(frame[k][col])
    \/ IsFloatText(frame[k][col])

\* str(row[0]); the first column holds text (every modelled feed has a
\* letter in it), so a cell is its own text and a missing cell is "nan".
StrOf(cell) == IF cell = <<>> THEN <<"n", "a", "n">> ELSE cell

\* try: int(row[col]) except: None.  col is 1-based here.
IntOf(frame, row, col) ==
  IF col > Len(row) THEN NoQty
  ELSE IF row[col] = <<>> THEN NoQty
  ELSE IF IsIntText(row[col]) THEN PyInt(row[col])
  ELSE IF IsFloatText(row[col]) /\ ColNumeric(frame, col)
  THEN [ok |-> TRUE, v |-> FloatTextTrunc(row[col])]
  ELSE NoQty

\* QtyCol with the quantity in the second field for both programs.
QtyColSecond(v) == 2

\* row[2] in secondStockUpdater, row[1] in seleniumToShopifyUpdater
QtyCol(v) == IF v = "ftp" THEN 3 ELSE 2

\* secondStockUpdater only: qty < 0 or qty > 1_000_000 becomes None
RangeCheck(v, qty) ==
  IF v = "ftp" /\ qty.ok /\ (qty.v < 0 \/ qty.v > QtyUpperBound)
  THEN NoQty ELSE qty

RowSku(row) == Strip(StrOf(row[1]))

RowQty(v, frame, row) == RangeCheck(v, IntOf(frame, row, QtyCol(v)))

\* UpdateRecord with the two fields of the index entry swapped.
UpdateRecordSwapped(v, map, sku, qty) ==
  IF v = "ftp"
  THEN [sku |-> sku, quantity |-> qty, title |-> map[sku].inventoryItemId,
        inventoryItemId |-> map[sku].title]
  ELSE [sku |-> sku, quantity |-> qty, inventoryItemId |-> map[sku].title]

UpdateRecord(v, map, sku, qty) ==
  IF v = "ftp"
  THEN [sku |-> sku, quantity |-> qty, title |-> map[sku].title,
        inventoryItemId |-> map[sku].inventoryItemId]
  ELSE [sku |-> sku, quantity |-> qty,
        inventoryItemId |-> map[sku].inventoryItemId]

\* read_csv up to the frame: sniff the delimiter, decode, parse.
ReadCsvParse ==
  /\ pc = "read_csv"
  /\ counts' = SampleCounts(feed)
  /\ sep' = DetectSep(counts'[1], counts'[2], counts'[3])
  /\ IF ParseOutcome(feed, sep') = "frame"
     THEN df' = Frame(feed, sep') /\ pc' = "rows" /\ failStage' = failStage
     ELSE df' = df /\ Raise("read_csv")
  /\ UNCHANGED <<envVars, fetchVars, rowIdx, updates, skipped, mutVars,
                 remoteVars, trace>>

\* One iteration of the loop over df.iterrows().
ExtractRow ==
  /\ pc = "rows"
  /\ rowIdx <= Len(df)
  /\ LET row == df[rowIdx]
         sku == RowSku(row)
         qty == RowQty(variant, df, row)
     IN  IF sku \in DOMAIN inventory_map /\ qty.ok
         THEN /\ updates' =
                   Append(updates,
                          UpdateRecord(variant, inventory_map, sku, qty.v))
              /\ skipped' = skipped
         ELSE /\ updates' = updates
              /\ skipped' = skipped + 1
  /\ rowIdx' = rowIdx + 1
  /\ UNCHANGED <<envVars, pc, failStage, fetchVars, counts, sep, df, mutVars,
                 remoteVars, trace>>

\* read_csv returns and main() tests `if updates:`.
MainDispatch ==
  /\ pc = "rows"
  /\ rowIdx > Len(df)
  /\ pc' = IF updates # <<>> THEN "mutate" ELSE "done"
  /\ trace' = Append(trace, "reconciled")
  /\ UNCHANGED <<envVars, failStage, fetchVars, csvVars, mutVars, remoteVars>>

\* ---------------------------------------------------------- update_inventory
\* throttle_sleep pausing long whenever the header gives no usable ratio.
throttle_sleep_conservative(header) ==
  LET parts == SplitOn(header, "/")
  IN  IF \/ header = NoneStr
         \/ Len(parts) # 2 \/ ~IsIntText(parts[1]) \/ ~IsIntText(parts[2])
      THEN LongPause
      ELSE LET used == IntTextVal(parts[1])
               max_calls == IntTextVal(parts[2])
           IN  IF \/ max_calls = 0
                  \/ max_calls > 0 /\ 5 * used <= 4 * max_calls
                  \/ max_calls < 0 /\ 5 * used >= 4 * max_calls
               THEN ShortPause
               ELSE LongPause

\* try: used, max_calls = map(int, limit.split("/")) ... except: sleep(0.5).
\* used / max_calls <= 0.8 is decided on the integers: 5*used against
\* 4*max_calls, with the sign of max_calls.
throttle_sleep(header) ==
  LET limit == IF header = NoneStr THEN <<"0", "/", "0">> ELSE header
      parts == SplitOn(limit, "/")
  IN  IF Len(parts) # 2 \/ ~IsIntText(parts[1]) \/ ~IsIntText(parts[2])
      THEN ShortPause
      ELSE LET used == IntTextVal(parts[1])
               max_calls == IntTextVal(parts[2])
           IN  IF \/ max_calls = 0
                  \/ max_calls > 0 /\ 5 * used <= 4 * max_calls
                  \/ max_calls < 0 /\ 5 * used >= 4 * max_calls
               THEN ShortPause
               ELSE LongPause

\* The pause that ends a batch iteration.
BatchPause(v, header) ==
  IF v = "ftp" THEN throttle_sleep(header) ELSE SeleniumPause

\* What the remote can answer to a mutation.  applied: whether the remote
\* has set the batch's quantities; a batch answered with userErrors is not
\* applied, one that fails in transport may or may not have been.
MutationResponses ==
  {[status |-> "http_error", userErrors |-> 0, header |-> NoneStr,
    applied |-> a] : a \in BOOLEAN}
  \cup {[status |-> "ok", userErrors |-> n, header |-> h,
         applied |-> (n = 0)] :
          n \in 0..MaxUserErrors, h \in limitHeaders}

\* RemoteApply as a delta: each entry's quantity is added to the stock.
RECURSIVE RemoteAdjust(_, _)
RemoteAdjust(r, qs) ==
  IF qs = <<>> THEN r
  ELSE LET id == Head(qs).inventoryItemId
           old == IF id \in DOMAIN r THEN r[id] ELSE 0
       IN  RemoteAdjust([h \in DOMAIN r \cup {id} |->
                           IF h = id THEN old + Head(qs).quantity ELSE r[h]],
                        Tail(qs))

\* The mutation the request asks for: inventorySetQuantities of "available"
\* with ignoreCompareQuantity, each entry in turn setting its item's
\* quantity to the value sent.
RECURSIVE RemoteApply(_, _)
RemoteApply(r, qs) ==
  IF qs = <<>> THEN r
  ELSE LET id == Head(qs).inventoryItemId
       IN  RemoteApply([h \in DOMAIN r \cup {id} |->
                          IF h = id THEN Head(qs).quantity ELSE r[h]],
                       Tail(qs))

\* What one loop iteration adds to the trace: the request, its response,
\* and the pause that follows an answered batch.
BatchEvents(ok) ==
  <<"batch_request", "batch_response">>
  \o (IF ok THEN <<"batch_sleep">> ELSE <<>>)

\* Every request of the pass was answered without userErrors.
AllAccepted(reqs) ==
  \A k \in 1..Len(reqs) : reqs[k].status = "ok" /\ reqs[k].userErrors = 0

\* The entry of passes for a pass that ends with requests reqs, remote r.
PassEnd(outcome, reqs, r) ==
  [outcome |-> outcome, clean |-> AllAccepted(reqs), remote |-> r]

\* Batch with the slice's lower end off by one: updates[i + 1:i + batch_size]
BatchSkipFirst(us, k, size) == SubSeq(us, k + 2, Min(k + size, Len(us)))

\* updates[i:i + batch_size]
Batch(us, k, size) == SubSeq(us, k + 1, Min(k + size, Len(us)))

\* the "quantities" list of the request
Quantities(batch) ==
  [k \in 1..Len(batch) |->
     [inventoryItemId |-> batch[k].inventoryItemId,
      quantity |-> batch[k].quantity]]

\* TransportFailed taking a response with userErrors for a failure.
TransportFailedOrRejected(resp) ==
  resp.status = "http_error" \/ resp.userErrors > 0

\* TransportFailed with raise_for_status left out.
TransportIgnored(resp) == FALSE

\* r.raise_for_status() raises on the response.
TransportFailed(resp) == resp.status = "http_error"

\* One iteration of the for loop of update_inventory.
SubmitBatch ==
  /\ pc = "mutate"
  /\ i < Len(updates)
  /\ LET batch == Batch(updates, i, batch_size)
     IN  \E resp \in MutationResponses :
           /\ requests' = Append(requests,
                                 [quantities |-> Quantities(batch),
                                  status |-> resp.status,
                                  userErrors |-> resp.userErrors,
                                  applied |-> resp.applied])
           /\ remote' = IF resp.applied
                        THEN RemoteApply(remote, Quantities(batch))
                        ELSE remote
           /\ trace' = trace \o BatchEvents(~TransportFailed(resp))
           /\ IF TransportFailed(resp)
              THEN /\ Raise("mutate")
                   /\ passes' = Append(passes,
                                       PassEnd("fatal", requests', remote'))
                   /\ UNCHANGED <<i, total_updated, total_errors, pause,
                                  lastHeader>>
              ELSE /\ IF variant = "ftp"
                      THEN IF resp.userErrors > 0
                           THEN /\ total_errors' =
                                     total_errors + resp.userErrors
                                /\ total_updated' = total_updated
                           ELSE /\ total_updated' =
                                     total_updated + Len(batch)
                                /\ total_errors' = total_errors
                      ELSE UNCHANGED <<total_updated, total_errors>>
                   /\ pause' = BatchPause(variant, resp.header)
                   /\ lastHeader' = resp.header
                   /\ i' = i + batch_size
                   /\ UNCHANGED <<pc, failStage, passes>>
  /\ UNCHANGED <<envVars, fetchVars, csvVars>>

\* The loop is exhausted: the closing print, and main() returns.
UpdateDone ==
  /\ pc = "mutate"
  /\ i >= Len(updates)
  /\ pc' = "done"
  /\ passes' = Append(passes, PassEnd("done", requests, remote))
  /\ UNCHANGED <<envVars, failStage, fetchVars, csvVars, mutVars, remote,
                 trace>>

\* The item count of the closing print of update_inventory.
Reported == IF variant = "ftp" THEN total_updated ELSE Len(updates)

Next ==
  \/ Acquire
  \/ GetLocation
  \/ FetchPage
  \/ ReadCsvParse
  \/ ExtractRow
  \/ MainDispatch
  \/ SubmitBatch
  \/ UpdateDone

Spec == Init /\ [][Next]_vars

\* main() is one sequential thread and every request it sends is answered
\* or fails, so an iteration of the page loop or of the batch loop that can
\* be taken is eventually taken.
FairSpec ==
  Spec /\ WF_vars(FetchPage) /\ WF_vars(SubmitBatch) /\ WF_vars(UpdateDone)

\* ------------------------------------------ update_inventory on its own
\* The index the update sets below were joined against.
ApplyIndex ==
  [k \in {A1, C3} |->
     IF k = A1 THEN [inventoryItemId |-> "item1", title |-> "T1"]
     ELSE [inventoryItemId |-> "item3", title |-> "T3"]]

ApplyHandles == {"item1", "item3"}

\* The (sku, quantity) pairs the update sets are made of.
ApplyRows == {<<A1, 0>>, <<A1, 5>>, <<C3, 5>>}

\* Update sets handed to update_inventory: every sequence of at most
\* MaxUpdates records over ApplyRows, so the same itemHandle can occur
\* twice with different quantities.
UpdateSets(v) ==
  UNION {[1..n -> {UpdateRecord(v, ApplyIndex, r[1], r[2]) :
                     r \in ApplyRows}] : n \in 0..MaxUpdates}

InitApply ==
  /\ variant \in {"ftp", "selenium"}
  /\ feed = <<>>
  /\ catalog = <<<<>>>>
  /\ batch_size \in 1..MaxBatch
  /\ pc = "mutate"
  /\ failStage = "none"
  /\ cursor = 0
  /\ pageReqs = <<>>
  /\ inventory_map = ApplyIndex
  /\ counts = <<0, 0, 0>>
  /\ sep = ""
  /\ df = <<>>
  /\ rowIdx = 1
  /\ updates \in UpdateSets(variant)
  /\ skipped = 0
  /\ i = 0
  /\ requests = <<>>
  /\ total_updated = 0
  /\ total_errors = 0
  /\ pause = 0
  /\ lastHeader = NoneStr
  /\ remote \in [ApplyHandles -> {1, 5}]
  /\ passes = <<StartOf(remote)>>
  /\ trace = <<>>
  /\ limitHeaders = {NoneStr, <<"9", "5", "/", "1", "0", "0">>}

\* The program is run again on the same feed and index: update_inventory
\* starts over with the same update set against the remote as it now is.
Rerun ==
  /\ pc \in {"done", "fatal"}
  /\ Len(passes) <= MaxPasses
  /\ pc' = "mutate"
  /\ failStage' = "none"
  /\ i' = 0
  /\ requests' = <<>>
  /\ total_updated' = 0
  /\ total_errors' = 0
  /\ pause' = 0
  /\ lastHeader' = NoneStr
  /\ trace' = <<>>
  /\ UNCHANGED <<envVars, fetchVars, csvVars, remoteVars>>

NextApply ==
  \/ SubmitBatch
  \/ UpdateDone
  \/ Rerun

SpecApply == InitApply /\ [][NextApply]_vars

TypeOK ==
  /\ pc \in {"acquire", "location", "fetch", "read_csv", "rows", "mutate",
             "done", "fatal"}
  /\ skipped \in Nat /\ i \in Nat /\ total_updated \in Nat

\* ================================================================== claims
CeilDiv(n, b) == (n + b - 1) \div b

RECURSIVE ConcatQuantities(_)
ConcatQuantities(reqs) ==
  IF reqs = <<>> THEN <<>>
  ELSE Head(reqs).quantities \o ConcatQuantities(Tail(reqs))

IsPrefix(a, b) == Len(a) <= Len(b) /\ a = SubSeq(b, 1, Len(a))

\* C1: a run without transport failure issues exactly ceil(N/B) mutation
\* requests, each with at most B entries, and the requests' entries in issue
\* order are the update set in its original order; while the run is under
\* way the entries sent so far are a prefix of the update set.
C1_BatchPartition ==
  /\ \A k \in 1..Len(requests) :
       Len(requests[k].quantities) \in 1..batch_size
  /\ IsPrefix(ConcatQuantities(requests), Quantities(updates))
  /\ pc = "done" =>
       /\ Len(requests) = CeilDiv(Len(updates), batch_size)
       /\ ConcatQuantities(requests) = Quantities(updates)

\* Three records in batches of two: a full batch and a short last one.
C1_Witness ==
  /\ pc = "done"
  /\ Len(updates) = 3
  /\ batch_size = 2
  /\ Len(requests) = 2

\* A header value of the form used/max with both parts integers.
ParsableHeader(h) ==
  /\ h # NoneStr
  /\ Len(SplitOn(h, "/")) = 2
  /\ IsIntText(SplitOn(h, "/")[1])
  /\ IsIntText(SplitOn(h, "/")[2])

HeaderUsed(h) == IntTextVal(SplitOn(h, "/")[1])
HeaderMax(h) == IntTextVal(SplitOn(h, "/")[2])

\* pause is 0 until a batch has been answered; from then on pause and
\* lastHeader belong to the last answered batch.
Paused == pause # 0

C3_AdaptivePause ==
  Paused /\ ParsableHeader(lastHeader) /\ HeaderMax(lastHeader) > 0 =>
    (pause = LongPause <=>
       5 * HeaderUsed(lastHeader) > 4 * HeaderMax(lastHeader))

\* C4: every quantity placed in a mutation request is an integer q >= 0, and
\* q <= 1,000,000 in the variant that configures the upper bound.
C4_QuantityRange ==
  \A k \in 1..Len(requests) :
    \A j \in 1..Len(requests[k].quantities) :
      LET q == requests[k].quantities[j].quantity
      IN  /\ q \in Nat
          /\ variant = "ftp" => q <= QtyUpperBound

\* C5: a run that fails in acquisition, in the location lookup, in the
\* catalog index build or while reading the feed has issued no mutation
\* request, and (the failed run being over) never issues one.
C5_EarlyFailureNoMutation ==
  failStage \in {"acquire", "location", "fetch", "read_csv"} =>
    requests = <<>> /\ pc = "fatal"

\* The second page query fails in transport, after a first page was stored.
C5_Witness ==
  /\ failStage = "fetch"
  /\ Len(pageReqs) = 2
  /\ pageReqs[2].resp.status = "http_error"
  /\ inventory_map # EmptyMap

\* The index built from the first n pages of the catalog.
RECURSIVE IndexOfPages(_)
IndexOfPages(n) ==
  IF n = 0 THEN EmptyMap ELSE AddVariants(IndexOfPages(n - 1), catalog[n])

\* C6: when a page response carries an error list the builder issues no
\* further page request, does not crash, and returns exactly the index of
\* the pages received before that response.
C6_ErrorListPartialIndex ==
  \A k \in 1..Len(pageReqs) :
    pageReqs[k].resp.status = "ok" /\ pageReqs[k].resp.errors =>
      /\ k = Len(pageReqs)
      /\ failStage # "fetch"
      /\ pc # "fetch"
      /\ inventory_map = IndexOfPages(k - 1)

\* A quantity cell the extractor must reject: not an integer, negative, or
\* above the upper bound where one is configured.
InvalidQuantity(v, frame, row) ==
  LET q == IntOf(frame, row, QtyCol(v))
  IN  \/ ~q.ok
      \/ q.v < 0
      \/ v = "ftp" /\ q.v > QtyUpperBound

ExtractStep == pc = "rows" /\ rowIdx' = rowIdx + 1

\* C7: every row processed either yields one update record or adds one to
\* skipped, so records + skipped = rows processed; a row with an invalid
\* quantity or a SKU absent from the index is skipped and yields no record.
C7_RowAccounting ==
  [][ExtractStep =>
       /\ Len(updates') + skipped' = rowIdx
       /\ \/ Len(updates') = Len(updates) + 1 /\ skipped' = skipped
          \/ updates' = updates /\ skipped' = skipped + 1
       /\ (\/ InvalidQuantity(variant, df, df[rowIdx])
           \/ RowSku(df[rowIdx]) \notin DOMAIN inventory_map)
          => updates' = updates /\ skipped' = skipped + 1]_vars

\* s is cell with the whitespace at both ends removed.
IsTrimOf(s, cell) ==
  \E lo \in 0..Len(cell) : \E hi \in lo..Len(cell) :
    /\ s = SubSeq(cell, lo + 1, hi)
    /\ \A k \in (1..lo) \cup ((hi + 1)..Len(cell)) : cell[k] \in Whitespace
    /\ s # <<>> => s[1] \notin Whitespace /\ s[Len(s)] \notin Whitespace

\* The item handles on the catalog pages received so far in this run.
ReturnedHandles ==
  UNION {{catalog[pageReqs[k].cursor + 1][j].id :
            j \in 1..Len(catalog[pageReqs[k].cursor + 1])} :
         k \in {n \in 1..Len(pageReqs) :
                  /\ pageReqs[n].resp.status = "ok"
                  /\ pageReqs[n].resp.data = "present"}}

\* Every update record's SKU is a key of the catalog index and its
\* itemHandle is the handle the index maps that SKU to; every itemHandle
\* sent in a mutation request was returned by a catalog page of this run.
RecordsJoinIndex ==
  /\ \A k \in 1..Len(updates) :
       /\ updates[k].sku \in DOMAIN inventory_map
       /\ updates[k].inventoryItemId =
            inventory_map[updates[k].sku].inventoryItemId
  /\ \A k \in 1..Len(requests) :
       \A j \in 1..Len(requests[k].quantities) :
         requests[k].quantities[j].inventoryItemId \in ReturnedHandles

HighestCountSep(commas, semis, tabs) ==
  IF semis > commas /\ semis > tabs THEN ";"
  ELSE IF tabs > commas /\ tabs > semis THEN TAB
  ELSE ","

\* C9: the chosen delimiter is the one with the strictly highest count in
\* the sample, and comma whenever the highest count is shared.
C9_HighestCountWins ==
  sep # "" => sep = HighestCountSep(counts[1], counts[2], counts[3])

RECURSIVE SumClean(_)
SumClean(reqs) ==
  IF reqs = <<>> THEN 0
  ELSE (IF Head(reqs).status = "ok" /\ Head(reqs).userErrors = 0
        THEN Len(Head(reqs).quantities) ELSE 0) + SumClean(Tail(reqs))

\* C10: at the end of a run without transport failure the applied count is
\* the sum of the sizes of the batches whose response had no userErrors: a
\* batch answered with userErrors adds nothing to it.
C10_AppliedCount ==
  pc = "done" => Reported = SumClean(requests)


\* A pass of update_inventory that ran to its end with every batch accepted.
CleanPass(k) == passes[k].outcome = "done" /\ passes[k].clean

\* C11: two complete passes in a row over the same update set, every batch
\* accepted in both, leave each item's remote quantity after the second pass
\* equal to what it was after the first.
C11_Idempotent ==
  \A k \in 2..(Len(passes) - 1) :
    CleanPass(k) /\ CleanPass(k + 1) => passes[k + 1].remote = passes[k].remote

\* Two clean passes over a set that names one item twice with different
\* quantities, in separate batches, and changes the remote.
C11_Witness ==
  /\ Len(passes) = 3
  /\ CleanPass(2) /\ CleanPass(3)
  /\ Len(updates) = 2
  /\ batch_size = 1
  /\ updates[1].inventoryItemId = updates[2].inventoryItemId
  /\ updates[1].quantity # updates[2].quantity
  /\ passes[2].remote # passes[1].remote

\* C12: parsing the feed buffer never raises: whatever the buffer (empty,
\* only blank lines, a later row with more fields than the first), read_csv
\* gets a possibly empty row sequence and the run does not end in an error
\* raised by the parse.
C12_NormalizerNeverRaises == failStage # "read_csv"

\* The scenario's rows (A1,10), (B2,-5), (C3,70) as a comma-separated feed,
\* the quantity in field col of each row, "x" in the fields between.
ScenarioFeed(col) ==
  LET row(sku, q) == [k \in 1..col |->
                        IF k = 1 THEN sku ELSE IF k = col THEN q ELSE X]
  IN  FeedOf(<< row(A1, <<"1", "0">>), row(B2, <<"-", "5">>),
                row(C3, <<"7", "0">>) >>, ",")

\* What the scenario promises of a run on feed f.
ScenarioOutcome(f) ==
  feed = f /\ inventory_map = ApplyIndex /\ batch_size = DefaultBatchSize
  /\ pc \in {"mutate", "done"}
  => /\ updates = << UpdateRecord(variant, ApplyIndex, A1, 10),
                     UpdateRecord(variant, ApplyIndex, C3, 70) >>
     /\ skipped = 1
     /\ pc = "done" /\ AllAccepted(requests)
        => /\ Len(requests) = 1
           /\ requests[1].quantities = Quantities(updates)
           /\ Reported = 2
           /\ total_errors = 0

\* C13 as stated: the feed's rows have two fields, in either program.
C13_Original == ScenarioOutcome(ScenarioFeed(2))

\* C13: with the quantity in the field the program reads it from (the second
\* in seleniumToShopifyUpdater, the third in secondStockUpdater), the index
\* {A1->item1, C3->item3} and batch size 250, the run produces the records
\* (A1,10,item1), (C3,70,item3) in that order with one row skipped, issues
\* one mutation request with both, and with no userErrors reports 2 applied
\* and 0 errors.
C13_Scenario ==
  /\ variant = "selenium" => ScenarioOutcome(ScenarioFeed(2))
  /\ variant = "ftp" => ScenarioOutcome(ScenarioFeed(3))

\* The secondStockUpdater run of the scenario on three-field rows, finished.
C13_Witness ==
  /\ variant = "ftp"
  /\ feed = ScenarioFeed(3)
  /\ inventory_map = ApplyIndex
  /\ batch_size = DefaultBatchSize
  /\ pc = "done"
  /\ AllAccepted(requests)
  /\ Len(requests) = 1
  /\ Reported = 2

\* A page response without failure: status ok, no error list, data present.
PageServed(k) ==
  /\ pageReqs[k].resp.status = "ok"
  /\ ~pageReqs[k].resp.errors
  /\ pageReqs[k].resp.data = "present"

\* fetch_inventory_items has returned its index to main().
FetchReturned ==
  \/ pc \in {"read_csv", "rows", "mutate", "done"}
  \/ pc = "fatal" /\ failStage \in {"read_csv", "mutate"}

\* Cursor 0 is the absent cursor of the first request.  Request k + 1
\* carries the endCursor of response k and is issued only when response k
\* had hasNextPage; a response without hasNextPage is the last; a build that
\* met no failure has asked for every page once, in order.
PaginationProtocol ==
  /\ \A k \in 1..Len(pageReqs) :
       /\ pageReqs[k].cursor =
            IF k = 1 THEN 0 ELSE EndCursor(pageReqs[k - 1].cursor)
       /\ k > 1 => /\ HasNextPage(pageReqs[k - 1].cursor)
                   /\ pageReqs[k - 1].resp.status = "ok"
                   /\ pageReqs[k - 1].resp.data = "present"
       /\ ~HasNextPage(pageReqs[k].cursor) =>
            k = Len(pageReqs) /\ pc # "fetch"
  /\ FetchReturned /\ (\A k \in 1..Len(pageReqs) : PageServed(k))
     => /\ Len(pageReqs) = Len(catalog)
        /\ \A k \in 1..Len(pageReqs) : pageReqs[k].cursor = k - 1
        /\ inventory_map = IndexOfPages(Len(catalog))

\* C14: the first page request carries no cursor, every later one the
\* endCursor of the response before it; a next request is issued only after
\* a response with hasNextPage, none after one without; and over a catalog
\* of finitely many pages the builder leaves its loop, having processed
\* every page exactly once when no request failed.
C14_Pagination == []PaginationProtocol /\ (pc = "fetch" ~> pc # "fetch")

\* A three-page catalog read to its end without failure.
C14_Witness ==
  /\ Len(catalog) = 3
  /\ Len(pageReqs) = 3
  /\ \A k \in 1..3 : PageServed(k)
  /\ pageReqs[3].cursor = 2
  /\ pc = "read_csv"

\* Every variant of the catalog, in page-then-position order.
RECURSIVE VariantsUpTo(_)
VariantsUpTo(n) ==
  IF n = 0 THEN <<>> ELSE VariantsUpTo(n - 1) \o catalog[n]

\* The distinct trimmed SKUs of the variants vs that are not empty.
TrimmedSkus(vs) ==
  {Strip(vs[j].sku) : j \in {m \in 1..Len(vs) :
                               /\ vs[m].sku # NoneStr
                               /\ Strip(vs[m].sku) # <<>>}}

\* The last variant of vs whose trimmed SKU is key.
LastWith(vs, key) ==
  LET at == {j \in 1..Len(vs) : vs[j].sku # NoneStr /\ Strip(vs[j].sku) = key}
  IN  vs[CHOOSE j \in at : \A m \in at : m <= j]

\* C15: after a pagination that met no failure the index has one key for
\* each distinct trimmed non-empty SKU of the catalog and no other key, each
\* key maps to the handle and title of the last variant with that SKU, and
\* the keys are no more than the variants.
C15_IndexKeys ==
  FetchReturned /\ (\A k \in 1..Len(pageReqs) : PageServed(k))
  => LET vs == VariantsUpTo(Len(catalog))
     IN  /\ DOMAIN inventory_map = TrimmedSkus(vs)
         /\ \A key \in TrimmedSkus(vs) :
              /\ inventory_map[key].inventoryItemId = LastWith(vs, key).id
              /\ inventory_map[key].title = LastWith(vs, key).title
         /\ Cardinality(DOMAIN inventory_map) <= Len(vs)

\* The batch loop was ended by a transport failure of its last request.
EndedByTransport ==
  /\ pc = "fatal" /\ failStage = "mutate"
  /\ requests # <<>>
  /\ requests[Len(requests)].status = "http_error"

\* A response with userErrors leaves the run in its loop or at its normal
\* end; only a transport failure ends the loop early; a run that reaches
\* its normal end has submitted every batch.
UserErrorsContinue ==
  /\ \A k \in 1..Len(requests) :
       requests[k].userErrors > 0 =>
         /\ requests[k].status = "ok"
         /\ k = Len(requests) => pc \in {"mutate", "done"}
  /\ pc = "fatal" /\ failStage = "mutate" => EndedByTransport
  /\ pc = "done" => Len(requests) = CeilDiv(Len(updates), batch_size)

\* C16: a mutation response with userErrors never stops the run: the
\* remaining batches are still submitted and, unless a request fails in
\* transport, the run reaches its normal end.
C16_UserErrorsNeverStop ==
  /\ []UserErrorsContinue
  /\ (pc = "mutate" ~> (pc = "done" \/ EndedByTransport))

\* A finished run whose first batch was answered with userErrors and whose
\* later batches were submitted all the same.
C16_Witness ==
  /\ pc = "done"
  /\ Len(requests) >= 2
  /\ requests[1].userErrors > 0
  /\ AllAccepted(Tail(requests))

\* The remote r after the accepted ones of the requests reqs, in order.
RECURSIVE Replay(_, _)
Replay(r, reqs) ==
  IF reqs = <<>> THEN r
  ELSE Replay(IF Head(reqs).status = "ok" /\ Head(reqs).userErrors = 0
              THEN RemoteApply(r, Head(reqs).quantities) ELSE r,
              Tail(reqs))

\* C17: a mutation request that fails in transport is the run's last: the
\* run is in its fatal state, no later batch is submitted and the failed
\* one is not sent again, and the remote holds what batches 1..k-1 set,
\* changed at most by what batch k itself set before it failed.
C17_TransportFailureFatal ==
  \A k \in 1..Len(requests) :
    requests[k].status = "http_error" =>
      /\ k = Len(requests)
      /\ pc = "fatal" /\ failStage = "mutate"
      /\ i = (k - 1) * batch_size
      /\ LET before == Replay(passes[1].remote, SubSeq(requests, 1, k - 1))
         IN  remote \in {before, RemoteApply(before, requests[k].quantities)}

\* The second batch fails after the first was accepted and changed the
\* remote.
C17_Witness ==
  /\ pc = "fatal" /\ failStage = "mutate"
  /\ Len(requests) = 2
  /\ requests[1].status = "ok" /\ requests[1].userErrors = 0
  /\ requests[2].status = "http_error"
  /\ remote = RemoteApply(passes[1].remote, requests[1].quantities)
  /\ remote # passes[1].remote

\* The remote a single complete pass with every batch accepted produces
\* from the remote r.
CleanRun(r) == RemoteApply(r, Quantities(updates))

\* C18: a pass that ends in a transport failure followed by a complete pass
\* with every batch accepted, over the same update set, leaves every item's
\* remote quantity equal to what one complete accepted pass produces from
\* the remote the failed pass started with.
C18_RerunConverges ==
  \A k \in 2..Len(passes) :
    /\ CleanPass(k) => passes[k].remote = CleanRun(passes[k - 1].remote)
    /\ k < Len(passes) /\ passes[k].outcome = "fatal" /\ CleanPass(k + 1)
       => passes[k + 1].remote = CleanRun(passes[k - 1].remote)

\* The first pass fails at its second batch after the first batch changed
\* the remote; the rerun is accepted and changes the remote further.
C18_Witness ==
  /\ Len(passes) = 3
  /\ passes[2].outcome = "fatal"
  /\ passes[2].remote # passes[1].remote
  /\ CleanPass(3)
  /\ passes[3].remote # passes[2].remote
  /\ Len(requests) = 2

\* Positions of the event e in the trace.
At(e) == {k \in 1..Len(trace) : trace[k] = e}

\* Every request is followed at once by its response: nothing is sent
\* while a request is in flight.
OneInFlight ==
  /\ \A k \in At("page_request") :
       k < Len(trace) /\ trace[k + 1] = "page_response"
  /\ \A k \in At("batch_request") :
       k < Len(trace) /\ trace[k + 1] = "batch_response"

\* Every batch request comes after the reconciliation, which comes after
\* every page request and response.
MutationsLast ==
  /\ \A k \in At("batch_request") : \E j \in At("reconciled") : j < k
  /\ \A j \in At("reconciled") :
       \A k \in At("page_request") \cup At("page_response") : k < j

\* Between two requests of the kind req there is a delay of the kind delay.
PacedBy(req, delay) ==
  \A j \in At(req) : \A k \in At(req) :
    j < k => \E m \in At(delay) : j < m /\ m < k

\* C19: one page query or mutation batch in flight at a time, no mutation
\* request before the index build and the reconciliation have finished, and
\* a pacing delay between any two consecutive page requests and between any
\* two consecutive batch requests.
C19_SerializedAndPaced ==
  /\ OneInFlight
  /\ MutationsLast
  /\ PacedBy("page_request", "page_sleep")
  /\ PacedBy("batch_request", "batch_sleep")

\* A run of three page requests and two batch requests.
C19_Witness ==
  /\ pc = "done"
  /\ Cardinality(At("page_request")) = 3
  /\ Cardinality(At("batch_request")) = 2
  /\ Cardinality(At("page_sleep")) = 2

\* C20: when reconciliation yields no update record (empty feed, every row
\* invalid, no SKU matched, the index empty or partial), the run issues no
\* mutation request and ends normally.
C20_NothingToUpdate ==
  /\ updates = <<>> => requests = <<>>
  /\ FetchReturned /\ updates = <<>> /\ pc \in {"done", "fatal"}
     => pc = "done"
====
